---- MODULE Spec2Model ----
(***************************************************************************)
(* Consent management: the user_provider_consent table with its row-level  *)
(* security policies, unique index and updated_at trigger (the migration), *)
(* the Providers and Consent pages that write to it, the list of providers *)
(* (providersList) the Providers page keeps, and the realtime mirror       *)
(* (userConsents) the Consent page keeps of the owner's rows.              *)
(***************************************************************************)
EXTENDS Integers, Sequences, FiniteSets, TLC

(* ---------------------------- bounds ----------------------------------- *)
\* rows ever created (values gen_random_uuid() hands out)
MaxIds == 2
\* readings of the database clock now()
MaxTime == 1
\* change events waiting in one channel
MaxInbox == 1

(* ---------------------------- domains ---------------------------------- *)
Users == {"u1", "u2"}
\* the role of a request that carries no user session: auth.uid() is NULL
Anon == "anon"
ProviderIds == {"p1", "generic-provider"}
GenericProvider == "generic-provider"
Ids == 1..MaxIds
NoId == 0

FlagColumns == {"lab_results", "medications", "fitness_data"}
Columns == {"id", "user_id", "provider_id", "lab_results", "medications",
            "fitness_data", "approved", "created_at", "updated_at"}

\* PostgREST / Postgres error codes the requests can end with
NoError == "none"
RlsViolation == "42501"
UniqueViolation == "23505"

(* ---------------------------- state ------------------------------------ *)
VARIABLES
  table,         \* rows of user_provider_consent
  nextId,        \* next value of gen_random_uuid()
  now,           \* database clock
  actor,         \* auth.uid() of the request of the last step (Anon if none)
  result,        \* { data, error } answer to the request of the last step
  userData,      \* per client: the id useSupabaseUser() resolved, or Anon
  userConsents,  \* per client: the Consent page's mirror (a sequence of rows)
  channel,       \* per client: "none" | "joined"  (realtime subscription)
  inbox,         \* per client: change events not yet handled (FIFO)
  fetch,         \* per client: state of fetchConsentRecords
  providersList, \* per client: the Providers page's list of providers
  session        \* per client: the user of its auth session, or Anon

vars == <<table, nextId, now, actor, result, userData, userConsents, channel,
          inbox, fetch, providersList, session>>

storeVars == <<table, nextId, now>>
clientVars == <<userData, userConsents, channel, inbox, fetch, providersList,
               session>>

\* browser sessions showing the pages, and the users that sign in on them
Clients == {"c1"}
SessionUsers == {"u1"}

(* ------------------- the table: defaults, policies --------------------- *)
\* the flag columns declared DEFAULT true
ColumnDefault_FlagsGranted(col, id, t) ==
  CASE col = "id" -> id
    [] col \in FlagColumns -> TRUE
    [] col = "approved" -> FALSE
    [] col = "created_at" -> t
    [] col = "updated_at" -> t

\* column DEFAULTs of CREATE TABLE
ColumnDefault(col, id, t) ==
  CASE col = "id" -> id
    [] col \in FlagColumns -> FALSE
    [] col = "approved" -> FALSE
    [] col = "created_at" -> t
    [] col = "updated_at" -> t

\* the row an INSERT of `values` proposes: supplied columns, defaults elsewhere
NewRow(values, id, t) ==
  [c \in Columns |-> IF c \in DOMAIN values THEN values[c]
                     ELSE ColumnDefault(c, id, t)]

\* auth.uid() = user_id ; NULL = x is not true
OwnsRow(uid, row) == uid # Anon /\ uid = row.user_id

SelectPolicy(uid, row) == OwnsRow(uid, row)
\* a policy written TO authenticated USING (true)
UpdatePolicy_AnyAuthenticated(uid, row) == uid # Anon
UpdatePolicy(uid, row) == OwnsRow(uid, row)
\* a policy written TO authenticated WITH CHECK (true)
InsertPolicy_AnyAuthenticated(uid, row) == uid # Anon
InsertPolicy(uid, row) == OwnsRow(uid, row)
DeletePolicy(uid, row) == OwnsRow(uid, row)

\* CREATE UNIQUE INDEX ... (user_id, provider_id): would `row` collide with
\* another row of tbl
\* the index created without UNIQUE
ViolatesUnique_PlainIndex(row, tbl) == FALSE
ViolatesUnique(row, tbl) ==
  \E r \in tbl : r.id # row.id /\ r.user_id = row.user_id
                 /\ r.provider_id = row.provider_id

\* the trigger not created: an UPDATE leaves updated_at as it was
update_updated_at_column_NoTrigger(new, t) == new
\* BEFORE UPDATE trigger: NEW.updated_at = now()
update_updated_at_column(new, t) == [new EXCEPT !["updated_at"] = t]

\* .eq(col, v) filters of a request, as a record col |-> v
Matches(row, filter) == \A c \in DOMAIN filter : row[c] = filter[c]

\* rows of S in primary-key order
RECURSIVE RowsById(_)
RowsById(S) ==
  IF S = {} THEN <<>>
  ELSE LET r == CHOOSE x \in S : \A y \in S : x.id <= y.id
       IN <<r>> \o RowsById(S \ {r})

\* payload.new of a DELETE event and payload.old of an INSERT event are empty
NoRow == [id |-> NoId]

\* a row-level change as the realtime channel publishes it; `to` is the
\* user_id the channel filter (user_id=eq.<id>) is matched against
ChangeEvent(type, new, old) ==
  [to |-> IF type = "DELETE" THEN old.user_id ELSE new.user_id,
   eventType |-> type,
   new |-> IF type = "DELETE" THEN NoRow ELSE new,
   old |-> IF type = "INSERT" THEN NoRow ELSE [id |-> old.id]]

\* outcome of a statement: the table after it, the error code, the rows
\* returned (writes are sent without .select(): they return no rows) and the
\* change events it publishes
Answer(tbl, err, rows, evs) ==
  [table |-> tbl, error |-> err, data |-> rows, events |-> evs]

(* ------------------- the table: statements ----------------------------- *)
\* SELECT * WHERE filter, under the SELECT policy
Select(uid, filter, tbl) ==
  Answer(tbl, NoError,
         {r \in tbl : SelectPolicy(uid, r) /\ Matches(r, filter)}, <<>>)

\* INSERT values: WITH CHECK of the insert policy, then the unique index
Insert(uid, values, tbl, id, t) ==
  LET new == NewRow(values, id, t) IN
  IF ~InsertPolicy(uid, new) THEN Answer(tbl, RlsViolation, {}, <<>>)
  ELSE IF ViolatesUnique(new, tbl) THEN Answer(tbl, UniqueViolation, {}, <<>>)
  ELSE Answer(tbl \cup {new}, NoError, {},
              <<ChangeEvent("INSERT", new, NoRow)>>)

\* an UPDATE that rewrites the whole row from the patch (a PUT): columns the
\* patch leaves out fall back to their defaults
Update_ReplacesRow(uid, patch, id, tbl, t) ==
  LET hit == {r \in tbl : r.id = id /\ UpdatePolicy(uid, r)} IN
  IF hit = {} THEN Answer(tbl, NoError, {}, <<>>)
  ELSE LET old == CHOOSE r \in hit : TRUE
           set == [c \in Columns |->
                     IF c \in DOMAIN patch THEN patch[c]
                     ELSE IF c \in {"user_id", "provider_id"} THEN old[c]
                     ELSE ColumnDefault(c, old.id, t)]
           new == update_updated_at_column(set, t)
       IN Answer((tbl \ {old}) \cup {new}, NoError, {},
                 <<ChangeEvent("UPDATE", new, old)>>)

\* UPDATE SET patch WHERE id = ... : rows the USING clause hides are skipped
\* silently; the trigger stamps updated_at; the new row must pass the policy
\* again (an UPDATE policy without WITH CHECK reuses USING) and the index
Update(uid, patch, id, tbl, t) ==
  LET hit == {r \in tbl : r.id = id /\ UpdatePolicy(uid, r)} IN
  IF hit = {} THEN Answer(tbl, NoError, {}, <<>>)
  ELSE LET old == CHOOSE r \in hit : TRUE
           set == [c \in Columns |-> IF c \in DOMAIN patch THEN patch[c]
                                     ELSE old[c]]
           new == update_updated_at_column(set, t)
       IN IF ~UpdatePolicy(uid, new) THEN Answer(tbl, RlsViolation, {}, <<>>)
          ELSE IF ViolatesUnique(new, tbl)
          THEN Answer(tbl, UniqueViolation, {}, <<>>)
          ELSE Answer((tbl \ {old}) \cup {new}, NoError, {},
                      <<ChangeEvent("UPDATE", new, old)>>)

\* DELETE WHERE filter: rows the USING clause hides are skipped silently
Delete(uid, filter, tbl) ==
  LET hit == {r \in tbl : DeletePolicy(uid, r) /\ Matches(r, filter)}
      gone == RowsById(hit)
  IN Answer(tbl \ hit, NoError, {},
            [i \in 1..Len(gone) |-> ChangeEvent("DELETE", NoRow, gone[i])])

\* .upsert(values) without onConflict: INSERT ... ON CONFLICT (id) DO UPDATE.
\* values carries no id, so the proposed row gets a fresh primary key and the
\* conflict target never matches; the row goes down the INSERT path, where a
\* second row for the pair trips the (user_id, provider_id) index.
Upsert(uid, values, tbl, id, t) ==
  LET new == NewRow(values, id, t)
      pk == {r \in tbl : r.id = new.id}
  IN IF pk = {} THEN Insert(uid, values, tbl, id, t)
     ELSE Update(uid, values, new.id, tbl, t)

(* ------------------- requests at the storage boundary ------------------ *)
\* What any client holding the anon key (and possibly a user session) can
\* send to the table, whatever page code it runs.
Principals == Users \cup {Anon}

RawValues ==
  [user_id : Users, provider_id : ProviderIds]

RawPatches ==
  [approved : BOOLEAN] \cup [user_id : Users] \cup [provider_id : ProviderIds]

RawFilters ==
  [id : Ids] \cup [user_id : Users]
  \cup [user_id : Users, provider_id : ProviderIds]

\* the caller's view of a request: the statement, what it addressed (the
\* filter, or the values of an insert), and the { data, error } it got back
Response(op, req, ans) ==
  [op |-> op, req |-> req, error |-> ans.error, data |-> ans.data]

NoRequest == [id |-> NoId]
NoResponse ==
  [op |-> "none", req |-> NoRequest, error |-> NoError, data |-> {}]

RawSelect(uid, filter) ==
  LET ans == Select(uid, filter, table) IN
  /\ actor' = uid
  /\ result' = Response("select", filter, ans)
  /\ UNCHANGED <<storeVars, clientVars>>

RawInsert(uid, values) ==
  LET ans == Insert(uid, values, table, nextId, now) IN
  /\ nextId <= MaxIds
  /\ actor' = uid
  /\ table' = ans.table
  /\ nextId' = IF ans.error = NoError THEN nextId + 1 ELSE nextId
  /\ result' = Response("insert", values, ans)
  /\ UNCHANGED <<now, clientVars>>

RawUpdate(uid, id, patch) ==
  LET ans == Update(uid, patch, id, table, now) IN
  /\ actor' = uid
  /\ table' = ans.table
  /\ result' = Response("update", [id |-> id], ans)
  /\ UNCHANGED <<nextId, now, clientVars>>

RawDelete(uid, filter) ==
  LET ans == Delete(uid, filter, table) IN
  /\ actor' = uid
  /\ table' = ans.table
  /\ result' = Response("delete", filter, ans)
  /\ UNCHANGED <<nextId, now, clientVars>>

\* the database clock moves on
Tick ==
  /\ now < MaxTime
  /\ now' = now + 1
  /\ actor' = Anon
  /\ result' = NoResponse
  /\ UNCHANGED <<table, nextId, clientVars>>

InitStore ==
  /\ table = {}
  /\ nextId = 1
  /\ now = 0
  /\ actor = Anon
  /\ result = NoResponse

\* the entries the Providers page starts with
initialProviders ==
  << [id |-> "1", status |-> "active",
      permissions |-> [labResults |-> TRUE, medications |-> TRUE,
                       fitnessData |-> TRUE]],
     [id |-> "2", status |-> "pending",
      permissions |-> [labResults |-> FALSE, medications |-> TRUE,
                       fitnessData |-> TRUE]],
     [id |-> "3", status |-> "inactive",
      permissions |-> [labResults |-> TRUE, medications |-> FALSE,
                       fitnessData |-> TRUE]] >>

InitClients ==
  /\ userData = [c \in Clients |-> Anon]
  /\ userConsents = [c \in Clients |-> <<>>]
  /\ channel = [c \in Clients |-> "none"]
  /\ inbox = [c \in Clients |-> <<>>]
  /\ fetch = [c \in Clients |-> [state |-> "idle", data |-> {}]]
  /\ providersList = [c \in Clients |-> initialProviders]
  /\ session \in [Clients -> SessionUsers]

InitBoundary == InitStore /\ InitClients

NextBoundary ==
  \/ \E uid \in Principals, f \in RawFilters : RawSelect(uid, f)
  \/ \E uid \in Principals, v \in RawValues : RawInsert(uid, v)
  \/ \E uid \in Principals, id \in Ids, p \in RawPatches :
        RawUpdate(uid, id, p)
  \/ \E uid \in Principals, f \in RawFilters : RawDelete(uid, f)

SpecBoundary == InitBoundary /\ [][NextBoundary]_vars

TypeStore ==
  /\ \A r \in table : DOMAIN r = Columns /\ r.id \in Ids /\ r.id < nextId
  /\ now \in 0..MaxTime

(* ------------------- the realtime channel ------------------------------ *)
\* events of evs that pass client c's channel filter user_id=eq.<userData.id>
Filtered(c, evs) == SelectSeq(evs, LAMBDA e : e.to = userData[c])

\* inboxes after the change events evs are published: only joined channels
\* receive, nothing is kept for a channel that is not joined
Published(evs) ==
  [c \in Clients |-> IF channel[c] = "joined" THEN inbox[c] \o Filtered(c, evs)
                     ELSE inbox[c]]

\* the DELETE branch comparing with payload.new.id, which a DELETE leaves empty
OnChange_DeleteByNewId(prev, payload) ==
  IF payload.eventType = "INSERT" THEN Append(prev, payload.new)
  ELSE IF payload.eventType = "UPDATE"
  THEN [i \in 1..Len(prev) |-> IF prev[i].id = payload.new.id THEN payload.new
                               ELSE prev[i]]
  ELSE IF payload.eventType = "DELETE"
  THEN SelectSeq(prev, LAMBDA consent : consent.id # payload.new.id)
  ELSE prev

\* the postgres_changes callback applied to a mirror
OnChange(prev, payload) ==
  IF payload.eventType = "INSERT" THEN Append(prev, payload.new)
  ELSE IF payload.eventType = "UPDATE"
  THEN [i \in 1..Len(prev) |-> IF prev[i].id = payload.new.id THEN payload.new
                               ELSE prev[i]]
  ELSE IF payload.eventType = "DELETE"
  THEN SelectSeq(prev, LAMBDA consent : consent.id # payload.old.id)
  ELSE prev

(* ------------------- the pages ----------------------------------------- *)
\* A client is one user's browser session; its Providers page and its
\* Consent page may both be open (two tabs), so the handlers of both pages
\* are available to it.
\* a request of client c: sent with the client's session (auth.uid() is the
\* user of the session), answered, and its change events published
Request(c, op, req, ans) ==
  /\ actor' = session[c]
  /\ table' = ans.table
  /\ result' = Response(op, req, ans)
  /\ inbox' = Published(ans.events)
  /\ \A d \in Clients : Len(inbox'[d]) <= MaxInbox

NoRequestMade ==
  /\ actor' = Anon
  /\ result' = NoResponse

\* useSupabaseUser resolves the signed-in user; the Consent page's effect
\* (deps [userData]) then sends the select and subscribes to the channel
UserResolved(c, u) ==
  /\ userData[c] = Anon
  /\ session[c] = u
  /\ userData' = [userData EXCEPT ![c] = u]
  /\ fetch' = [fetch EXCEPT ![c] = [state |-> "requested", data |-> {}]]
  /\ channel' = [channel EXCEPT ![c] = "joining"]
  /\ NoRequestMade
  /\ UNCHANGED <<storeVars, userConsents, inbox, providersList, session>>

\* the select of fetchConsentRecords is executed by the database
FetchServed(c) ==
  LET ans == Select(session[c], [user_id |-> userData[c]], table) IN
  /\ fetch[c].state = "requested"
  /\ fetch' = [fetch EXCEPT ![c] = [state |-> "answered", data |-> ans.data]]
  /\ actor' = session[c]
  /\ result' = Response("select", [user_id |-> userData[c]], ans)
  /\ UNCHANGED <<storeVars, userData, userConsents, channel, inbox,
                 providersList, session>>

\* the awaited select resolves: setUserConsents(data)
FetchApplied(c) ==
  /\ fetch[c].state = "answered"
  /\ userConsents' = [userConsents EXCEPT ![c] = RowsById(fetch[c].data)]
  /\ fetch' = [fetch EXCEPT ![c] = [state |-> "done", data |-> {}]]
  /\ NoRequestMade
  /\ UNCHANGED <<storeVars, userData, channel, inbox, providersList, session>>

\* the channel's .subscribe() is acknowledged
ChannelJoined(c) ==
  /\ channel[c] = "joining"
  /\ channel' = [channel EXCEPT ![c] = "joined"]
  /\ NoRequestMade
  /\ UNCHANGED <<storeVars, userData, userConsents, inbox, fetch,
                 providersList, session>>

\* the channel hands the next change event to the callback
ChangeDelivered(c) ==
  /\ inbox[c] # <<>>
  /\ userConsents' = [userConsents EXCEPT ![c] = OnChange(@, Head(inbox[c]))]
  /\ inbox' = [inbox EXCEPT ![c] = Tail(@)]
  /\ NoRequestMade
  /\ UNCHANGED <<storeVars, userData, channel, fetch, providersList, session>>

ListedIds(c) == {providersList[c][i].id : i \in 1..Len(providersList[c])}

\* setProvidersList(prev => [...prev, provider])
AddedProvider(prev, providerId) ==
  Append(prev, [id |-> providerId, status |-> "pending",
                permissions |-> [labResults |-> FALSE, medications |-> FALSE,
                                 fitnessData |-> FALSE]])

\* setProvidersList(prev => prev.map(... { ...provider, permissions } ...))
PermissionsSet(prev, providerId, permissions) ==
  [i \in 1..Len(prev) |->
     IF prev[i].id = providerId
     THEN [prev[i] EXCEPT !.permissions = permissions]
     ELSE prev[i]]

\* setProvidersList(prev => prev.filter(provider =>
\*   provider.id !== providerId))
RemovedProvider(prev, providerId) ==
  SelectSeq(prev, LAMBDA provider : provider.id # providerId)

\* handleAddProvider without its `if (userData?.id)`: the insert is sent
\* whether or not a user is known
handleAddProvider_NoUserGuard(c, providerId) ==
  /\ providerId \notin ListedIds(c)
  /\ providersList' =
       [providersList EXCEPT ![c] = AddedProvider(@, providerId)]
  /\ LET values == [user_id |-> userData[c], provider_id |-> providerId,
                    approved |-> FALSE]
         ans == Insert(session[c], values, table, nextId, now)
     IN /\ nextId <= MaxIds
        /\ Request(c, "insert", values, ans)
        /\ nextId' = IF ans.error = NoError THEN nextId + 1 ELSE nextId
        /\ UNCHANGED <<now, userData, userConsents, channel, fetch, session>>

\* Providers.handleAddProvider: providerId is a fresh random string
handleAddProvider(c, providerId) ==
  /\ providerId \notin ListedIds(c)
  /\ providersList' =
       [providersList EXCEPT ![c] = AddedProvider(@, providerId)]
  /\ IF userData[c] # Anon
     THEN LET values == [user_id |-> userData[c], provider_id |-> providerId,
                         approved |-> FALSE]
              ans == Insert(session[c], values, table, nextId, now)
          IN /\ nextId <= MaxIds
             /\ Request(c, "insert", values, ans)
             /\ nextId' = IF ans.error = NoError THEN nextId + 1 ELSE nextId
             /\ UNCHANGED <<now, userData, userConsents, channel, fetch,
                            session>>
     ELSE /\ NoRequestMade
          /\ UNCHANGED <<storeVars, userData, userConsents, channel, inbox,
                         fetch, session>>

\* the body of the upsert: a property whose value is undefined is left out
\* of the JSON that is sent
UpsertValues(u, providerId, permissions) ==
  LET sent == {"user_id", "provider_id", "approved"}
              \cup (IF "labResults" \in DOMAIN permissions
                    THEN {"lab_results"} ELSE {})
              \cup (IF "medications" \in DOMAIN permissions
                    THEN {"medications"} ELSE {})
              \cup (IF "fitnessData" \in DOMAIN permissions
                    THEN {"fitness_data"} ELSE {})
  IN [col \in sent |->
        CASE col = "user_id" -> u
          [] col = "provider_id" -> providerId
          [] col = "approved" -> TRUE
          [] col = "lab_results" -> permissions.labResults
          [] col = "medications" -> permissions.medications
          [] col = "fitness_data" -> permissions.fitnessData]

\* Providers.handleUpdatePermissions, called from the access modal of a
\* listed provider (selectedProvider)
handleUpdatePermissions(c, providerId, permissions) ==
  /\ providerId \in ListedIds(c)
  /\ providersList' =
       [providersList EXCEPT ![c] = PermissionsSet(@, providerId, permissions)]
  /\ IF userData[c] # Anon
     THEN LET values == UpsertValues(userData[c], providerId, permissions)
              ans == Upsert(session[c], values, table, nextId, now)
          IN /\ nextId <= MaxIds
             /\ Request(c, "upsert", values, ans)
             /\ nextId' = IF ans.error = NoError THEN nextId + 1 ELSE nextId
             /\ UNCHANGED <<now, userData, userConsents, channel, fetch,
                            session>>
     ELSE /\ NoRequestMade
          /\ UNCHANGED <<storeVars, userData, userConsents, channel, inbox,
                         fetch, session>>

\* Providers.handleDeleteProvider, called from the access modal of a listed
\* provider (selectedProvider)
handleDeleteProvider(c, providerId) ==
  /\ providerId \in ListedIds(c)
  /\ providersList' =
       [providersList EXCEPT ![c] = RemovedProvider(@, providerId)]
  /\ IF userData[c] # Anon
     THEN LET filter == [user_id |-> userData[c], provider_id |-> providerId]
              ans == Delete(session[c], filter, table)
          IN /\ Request(c, "delete", filter, ans)
             /\ UNCHANGED <<nextId, now, userData, userConsents, channel,
                            fetch, session>>
     ELSE /\ NoRequestMade
          /\ UNCHANGED <<storeVars, userData, userConsents, channel, inbox,
                         fetch, session>>

\* Consent.handleAccessRequest
handleAccessRequest(c, dataTypes) ==
  IF userData[c] # Anon
  THEN LET values == [user_id |-> userData[c],
                      provider_id |-> GenericProvider,
                      lab_results |-> "Lab Results" \in dataTypes,
                      medications |-> "Prescriptions" \in dataTypes,
                      fitness_data |-> "Fitness Data" \in dataTypes,
                      approved |-> TRUE]
           ans == Insert(session[c], values, table, nextId, now)
       IN /\ nextId <= MaxIds
          /\ Request(c, "insert", values, ans)
          /\ nextId' = IF ans.error = NoError THEN nextId + 1 ELSE nextId
          /\ UNCHANGED <<now, userData, userConsents, channel, fetch,
                         providersList, session>>
  ELSE NoRequestMade /\ UNCHANGED <<storeVars, clientVars>>

\* the rows the Consent page lists under Access Requests
Pending(c) == {i \in 1..Len(userConsents[c]) : ~userConsents[c][i].approved}

\* the Deny button clearing the flag, .update({ approved: false }), instead
\* of deleting the row
Deny_ClearsApproved(c, i) ==
  LET filter == [id |-> userConsents[c][i].id]
      ans == Update(session[c], [approved |-> FALSE], filter.id, table, now)
  IN /\ i \in Pending(c)
     /\ Request(c, "update", filter, ans)
     /\ UNCHANGED <<nextId, now, userData, userConsents, channel, fetch,
                    providersList, session>>

\* Consent: the Deny button of the i-th mirrored row
Deny(c, i) ==
  LET filter == [id |-> userConsents[c][i].id]
      ans == Delete(session[c], filter, table)
  IN /\ i \in Pending(c)
     /\ Request(c, "delete", filter, ans)
     /\ UNCHANGED <<nextId, now, userData, userConsents, channel, fetch,
                    providersList, session>>

\* Consent: the Approve button of the i-th mirrored row
Approve(c, i) ==
  LET filter == [id |-> userConsents[c][i].id]
      ans == Update(session[c], [approved |-> TRUE], filter.id, table, now)
  IN /\ i \in Pending(c)
     /\ Request(c, "update", filter, ans)
     /\ UNCHANGED <<nextId, now, userData, userConsents, channel, fetch,
                    providersList, session>>

(* ------------------- inputs of the pages ------------------------------- *)
\* permission objects handed to handleUpdatePermissions
PermissionInputs ==
  { [labResults |-> TRUE],
    [labResults |-> FALSE, medications |-> TRUE, fitnessData |-> FALSE] }

\* values of Math.random().toString(36).substr(2, 9) in handleAddProvider
GeneratedIds == ProviderIds \ {GenericProvider}

\* dataTypes selections of the request-access form
DataTypeInputs == { {}, {"Lab Results", "Fitness Data"} }

Init == InitStore /\ InitClients

\* the pages with their realtime channel, at one reading of the clock
Next ==
  \/ \E c \in Clients, u \in SessionUsers : UserResolved(c, u)
  \/ \E c \in Clients : FetchServed(c)
  \/ \E c \in Clients : FetchApplied(c)
  \/ \E c \in Clients : ChannelJoined(c)
  \/ \E c \in Clients : ChangeDelivered(c)
  \/ \E c \in Clients, p \in GeneratedIds : handleAddProvider(c, p)
  \/ \E c \in Clients, p \in ProviderIds, perms \in PermissionInputs :
        handleUpdatePermissions(c, p, perms)
  \/ \E c \in Clients, p \in ProviderIds : handleDeleteProvider(c, p)
  \/ \E c \in Clients, d \in DataTypeInputs : handleAccessRequest(c, d)
  \/ \E c \in Clients, i \in 1..(2 * MaxIds) : Deny(c, i)
  \/ \E c \in Clients, i \in 1..(2 * MaxIds) : Approve(c, i)

Spec == Init /\ [][Next]_vars

\* the pages writing to the table while the clock moves on; the mirror is
\* filled by the initial select (the channel is not acknowledged)
NextClock ==
  \/ \E c \in Clients, u \in SessionUsers : UserResolved(c, u)
  \/ \E c \in Clients : FetchServed(c)
  \/ \E c \in Clients : FetchApplied(c)
  \/ \E c \in Clients, p \in GeneratedIds : handleAddProvider(c, p)
  \/ \E c \in Clients, p \in ProviderIds, perms \in PermissionInputs :
        handleUpdatePermissions(c, p, perms)
  \/ \E c \in Clients, p \in ProviderIds : handleDeleteProvider(c, p)
  \/ \E c \in Clients, d \in DataTypeInputs : handleAccessRequest(c, d)
  \/ \E c \in Clients, i \in 1..(2 * MaxIds) : Deny(c, i)
  \/ \E c \in Clients, i \in 1..(2 * MaxIds) : Approve(c, i)
  \/ Tick

SpecClock == Init /\ [][NextClock]_vars

\* The auth session of client c ends (sign-out, here or in another tab, or a
\* token that can no longer be refreshed). useSupabaseUser reads the user
\* once, in an effect with no dependencies, and listens to no auth event: no
\* state of the open pages changes, and their later requests carry no user.
SessionLost(c) ==
  /\ session[c] # Anon
  /\ session' = [session EXCEPT ![c] = Anon]
  /\ NoRequestMade
  /\ UNCHANGED <<storeVars, userData, userConsents, channel, inbox, fetch,
                 providersList>>

\* the pages, open while the session may end
NextSession ==
  \/ Next
  \/ \E c \in Clients : SessionLost(c)

SpecSession == Init /\ [][NextSession]_vars

\* the realtime client hands every event it received to the callback
FairSpec == Spec /\ \A c \in Clients : WF_vars(ChangeDelivered(c))

(* ------------------- access policy at the storage boundary ------------- *)
SamePair(r1, r2) ==
  r1.user_id = r2.user_id /\ r1.provider_id = r2.provider_id

C1_ReadOwnRowsOnly ==
  result.op = "select" => \A r \in result.data : r.user_id = actor
C1_WriteOwnRowsOnly ==
  \A r \in table : r.user_id # actor' => r \in table'
\* C1: for principals U1 # U2, a select by U1 never returns a row owned by
\* U2, and no request issued by U1 changes or removes a row owned by U2.
C1_OwnerIsolation ==
  []C1_ReadOwnRowsOnly /\ [][C1_WriteOwnRowsOnly]_vars
\* U1 addressed an update or a delete at a row of U2, which is still there
C1_Witness ==
  /\ actor \in Users
  /\ result.op \in {"update", "delete"}
  /\ "id" \in DOMAIN result.req
  /\ \E r \in table : r.id = result.req.id /\ r.user_id # actor

C2_PolicyDecides ==
  result'.op = "insert" =>
    ((result'.error = RlsViolation) <=> (result'.req.user_id # actor'))
C2_NoForeignRow ==
  \A r \in table' \ table : r.user_id = actor'
\* C2: the store refuses an insert by its policy iff the candidate's user_id
\* differs from the acting principal, and no step puts into the table a row
\* (new or rewritten) whose user_id is not the acting principal.
C2_InsertOwnRowsOnly ==
  [][C2_PolicyDecides /\ C2_NoForeignRow]_vars
\* a signed-in client sent an insert carrying the other user's id
C2_Witness ==
  /\ result.op = "insert"
  /\ actor \in Users
  /\ result.req.user_id \in Users \ {actor}
  /\ result.error = RlsViolation

C3_OnePerPair ==
  \A r1, r2 \in table : SamePair(r1, r2) => r1 = r2
C3_ConflictOnDuplicate ==
  (/\ result'.op = "insert"
   /\ result'.req.user_id = actor'
   /\ \E r \in table : SamePair(r, result'.req))
  => (result'.error = UniqueViolation /\ table' = table)
\* C3: the table never holds two rows for one (user_id, provider_id) pair,
\* and an owner's insert for a pair that already has a row ends with the
\* unique-violation error and leaves the table as it was.
C3_UniquePair ==
  []C3_OnePerPair /\ [][C3_ConflictOnDuplicate]_vars
\* an insert for an existing pair was refused by the index
C3_Witness ==
  /\ result.op = "insert"
  /\ result.error = UniqueViolation
  /\ \E r \in table : SamePair(r, result.req)

(* ------------------- the store as the pages use it --------------------- *)
MirrorIds(c) == {userConsents[c][i].id : i \in 1..Len(userConsents[c])}

\* listByOwner(u): what the owner's select returns
ListByOwner(u, tbl) == Select(u, [user_id |-> u], tbl).data

\* C4: an upsert for a pair that already has a row does not fail and adds no
\* row: it writes the supplied columns into the existing row (same id, same
\* created_at) and stamps updated_at.
C4_UpsertMerges ==
  [][(/\ result'.op = "upsert"
      /\ \E r \in table : SamePair(r, result'.req))
     => (/\ result'.error = NoError
         /\ Cardinality(table') = Cardinality(table)
         /\ \E r \in table, r2 \in table' :
              /\ SamePair(r, result'.req)
              /\ r2.id = r.id /\ r2.created_at = r.created_at
              /\ r2.updated_at = now'
              /\ \A col \in DOMAIN result'.req : r2[col] = result'.req[col])
    ]_vars

\* the step is a permission upsert supplying only labResults = true for a
\* pair that has no row
C5_Case ==
  /\ result'.op = "upsert"
  /\ \E p \in ProviderIds :
       result'.req = UpsertValues(actor', p, [labResults |-> TRUE])
  /\ ~ \E r \in table : SamePair(r, result'.req)
C5_Created(appr) ==
  \E r \in table' \ table :
    /\ SamePair(r, result'.req)
    /\ r.lab_results = TRUE /\ r.medications = FALSE /\ r.fitness_data = FALSE
    /\ r.approved = appr
C6_MergeIdempotent ==
  \A c \in Clients :
    inbox[c] # <<>> =>
      LET once == OnChange(userConsents[c], Head(inbox[c]))
      IN OnChange(once, Head(inbox[c])) = once

\* mirror `after` is mirror `before` merged by id with the event
MergedById(before, payload, after) ==
  LET ids == {before[i].id : i \in 1..Len(before)} IN
  IF payload.eventType = "DELETE"
  THEN after = SelectSeq(before, LAMBDA r : r.id # payload.old.id)
  ELSE IF payload.new.id \in ids
  THEN /\ Len(after) = Len(before)
       /\ \A i \in 1..Len(before) :
            after[i] = IF before[i].id = payload.new.id THEN payload.new
                       ELSE before[i]
  ELSE after = Append(before, payload.new)
\* C7: the callback merges a change event by row id: INSERT or UPDATE of an
\* id the mirror lacks adds the incoming row, INSERT or UPDATE of an id it
\* holds replaces that entry, DELETE removes it; other entries are unchanged.
C7_MergeById ==
  [][\A c \in Clients :
       ChangeDelivered(c) =>
         MergedById(userConsents[c], Head(inbox[c]), userConsents'[c])]_vars

C8_Timestamps ==
  /\ \A r \in table, r2 \in table' :
       r2.id = r.id => /\ r2.created_at = r.created_at
                       /\ r2.updated_at >= r.updated_at
  /\ \A r2 \in table' :
       (\A r \in table : r.id # r2.id) =>
         r2.created_at = now' /\ r2.updated_at = now'
  /\ (result'.op \in {"update", "upsert"} /\ result'.error = NoError) =>
       \A r2 \in table' :
         (\/ ("id" \in DOMAIN result'.req /\ r2.id = result'.req.id)
          \/ /\ "provider_id" \in DOMAIN result'.req
             /\ SamePair(r2, result'.req))
         => r2.updated_at = now'
\* C8: across the mutations of a row (permission upsert, approval update)
\* updated_at never decreases and after each mutation is the time of that
\* mutation; created_at is set at insert and never changes.
C8_UpdatedAtMonotonic == [][C8_Timestamps]_vars
\* a row approved at a later clock reading than it was created at
C8_Witness ==
  /\ result.op = "update" /\ result.error = NoError
  /\ \E r \in table : r.id = result.req.id /\ r.approved
                      /\ r.updated_at > r.created_at /\ r.updated_at = now

C9_Frame ==
  result'.op = "update" =>
    \A r \in table :
      IF r.id = result'.req.id /\ r.user_id = actor'
      THEN LET r2 == [r EXCEPT !["approved"] = TRUE, !["updated_at"] = now']
           IN /\ result'.error = NoError
              /\ table' = (table \ {r}) \cup {r2}
              /\ {x \in ListByOwner(r.user_id, table') : SamePair(x, r)} = {r2}
      ELSE r \in table'
\* C9: approving a pending row changes only approved (and updated_at): the
\* owner's list then holds exactly one row for the pair, approved, with id,
\* user_id, provider_id and the three flags as before; other rows are
\* untouched.
C9_ApproveChangesOnlyApproved == [][C9_Frame]_vars
\* a pending row was approved while the owner has another row
C9_Witness ==
  /\ result.op = "update" /\ result.error = NoError
  /\ \E r \in table : r.id = result.req.id /\ r.approved
                      /\ r.updated_at > r.created_at
  /\ \E r \in table : r.id # result.req.id

\* a Deny step that removes a row takes it out of the owner's list and queues
\* a DELETE event for its id on every joined channel of the owner
C10_DenyPublishes ==
  \A c \in Clients, i \in 1..(2 * MaxIds) :
    Deny(c, i) =>
      \A r \in table \ table' :
        /\ r.id = userConsents[c][i].id
        /\ \A x \in ListByOwner(r.user_id, table') : x.id # r.id
        /\ \A d \in Clients :
             (channel[d] = "joined" /\ userData[d] = r.user_id) =>
               /\ inbox'[d] # <<>>
               /\ inbox'[d][Len(inbox'[d])].eventType = "DELETE"
               /\ inbox'[d][Len(inbox'[d])].old.id = r.id
\* the callback, run for a DELETE event, leaves the mirror without that id
C10_DeleteApplied ==
  \A c \in Clients :
    (ChangeDelivered(c) /\ Head(inbox[c]).eventType = "DELETE") =>
      Head(inbox[c]).old.id \notin MirrorIds(c)'
\* a DELETE event for id waits in client c's channel
C10_Queued(c, id) ==
  \E i \in 1..Len(inbox[c]) :
    inbox[c][i].eventType = "DELETE" /\ inbox[c][i].old.id = id
C11_Racing ==
  /\ result.op = "upsert" /\ result'.op = "upsert"
  /\ actor' = actor
  /\ SamePair(result.req, result'.req)
  /\ result.req # result'.req
\* C11: of two racing upserts for one (user_id, provider_id) pair with
\* different flags, both end without error, and afterwards the table holds
\* exactly one row for the pair, carrying the columns of the upsert executed
\* last and updated_at of that execution.
C11_LastUpsertWins ==
  [][C11_Racing =>
       /\ result.error = NoError /\ result'.error = NoError
       /\ \E r \in table' :
            /\ SamePair(r, result'.req)
            /\ \A x \in table' : SamePair(x, r) => x = r
            /\ \A col \in DOMAIN result'.req : r[col] = result'.req[col]
            /\ r.updated_at = now'
    ]_vars

(* ------------------- failed requests and what the page shows ----------- *)
\* the React state a client's pages render from
PageState(c) == <<userConsents[c], providersList[c]>>

\* the handler of this step got an error back and left the page in a state
\* other than the one it leaves after a request that succeeded
C12_FailureShown ==
  \A c \in Clients :
    result'.error # NoError =>
      /\ \A p \in ProviderIds :
           handleAddProvider(c, p) =>
             PageState(c)' #
               <<userConsents[c], AddedProvider(providersList[c], p)>>
      /\ \A p \in ProviderIds, perms \in PermissionInputs :
           handleUpdatePermissions(c, p, perms) =>
             PageState(c)' #
               <<userConsents[c], PermissionsSet(providersList[c], p, perms)>>
      /\ \A p \in ProviderIds :
           handleDeleteProvider(c, p) =>
             PageState(c)' #
               <<userConsents[c], RemovedProvider(providersList[c], p)>>
      /\ \A d \in DataTypeInputs :
           handleAccessRequest(c, d) => PageState(c)' # PageState(c)
      /\ \A i \in 1..(2 * MaxIds) :
           (Approve(c, i) \/ Deny(c, i)) => PageState(c)' # PageState(c)
\* C12: when the request of a local mutation (add provider, update
\* permissions, delete provider, access request, approve, deny) fails, the
\* page does not end in the state it has after the same mutation succeeded:
\* the failure shows in what the page renders from.
C12_FailuresReported == [][C12_FailureShown]_vars

(* ------------------- initial load racing with change events ------------ *)
\* the Consent page of client c has loaded: the select was applied, the
\* channel is joined and every event it received has been handled
C13_Ready(c) ==
  /\ userData[c] # Anon
  /\ fetch[c].state = "done"
  /\ channel[c] = "joined"
  /\ inbox[c] = <<>>
\* C13: for every interleaving of the select's answer with change events,
\* once the page has loaded and all events are handled the mirror holds each
\* of the owner's rows exactly once (no row missing, none listed twice).
C13_NothingLostWhileLoading ==
  \A c \in Clients :
    C13_Ready(c) =>
      LET owned == ListByOwner(userData[c], table) IN
      /\ MirrorIds(c) = {r.id : r \in owned}
      /\ Len(userConsents[c]) = Cardinality(owned)

(* ------------------- the end of the session ---------------------------- *)
\* client c has no session: its pages are back to their initial state, with
\* no user, no channel and an empty mirror
C14_Uninitialized(c) ==
  /\ userData[c] = Anon
  /\ channel[c] = "none"
  /\ userConsents[c] = <<>>
\* C14: once the session of a client has ended the client is uninitialized
\* (no user, subscription released, mirror without the previous owner's
\* rows), and no change event is handed to its callback any more.
C14_ReleasedOnSessionLoss ==
  /\ [](\A c \in Clients : session[c] = Anon => C14_Uninitialized(c))
  /\ [][\A c \in Clients : session[c] = Anon => ~ChangeDelivered(c)]_vars

(* ------------------- pages without a user ------------------------------ *)
\* the step sends nothing to the database, gets no error and leaves the
\* table as it is
C15_LocalOnly ==
  /\ actor' = Anon
  /\ result' = NoResponse
  /\ UNCHANGED storeVars
\* the Consent page of a client without user has sent no select and has no
\* channel
C15_NoFetchNoChannel ==
  \A c \in Clients :
    userData[c] = Anon =>
      /\ fetch[c].state = "idle"
      /\ channel[c] = "none"
      /\ inbox[c] = <<>>
\* a handler run by a client without user works on the page's own state only
C15_HandlersLocal ==
  \A c \in Clients :
    userData[c] = Anon =>
      /\ \A p \in ProviderIds :
           handleAddProvider(c, p) =>
             /\ C15_LocalOnly
             /\ providersList'[c] = AddedProvider(providersList[c], p)
      /\ \A p \in ProviderIds, perms \in PermissionInputs :
           handleUpdatePermissions(c, p, perms) =>
             /\ C15_LocalOnly
             /\ providersList'[c] = PermissionsSet(providersList[c], p, perms)
      /\ \A p \in ProviderIds :
           handleDeleteProvider(c, p) =>
             /\ C15_LocalOnly
             /\ providersList'[c] = RemovedProvider(providersList[c], p)
      /\ \A d \in DataTypeInputs :
           handleAccessRequest(c, d) =>
             C15_LocalOnly /\ PageState(c)' = PageState(c)
\* C15: while a client has no user id, its initial fetch and subscription are
\* not started, and add provider, update permissions, delete provider and
\* access request send no request and end without error: they change the
\* page's own list at most, and the table stays as it is.
C15_NoUserNoRequest ==
  []C15_NoFetchNoChannel /\ [][C15_HandlersLocal]_vars
\* a client without user has added a provider and changed its permissions
\* in its list, and the table is still empty
C15_Witness ==
  \E c \in Clients :
    /\ userData[c] = Anon
    /\ table = {}
    /\ \E i \in 1..Len(providersList[c]) :
         /\ providersList[c][i].id \in GeneratedIds
         /\ providersList[c][i].permissions = [labResults |-> TRUE]

(* ------------------- the providers list and the table ------------------ *)
\* what the Providers page shows for a flag of a permissions object
Shown(permissions, key) == key \in DOMAIN permissions /\ permissions[key]

\* the list of client c and the table agree about provider p: the provider
\* is listed iff the user has a row for it, with the flags the list shows
C16_Agree(c, p) ==
  LET rows == {r \in table : r.user_id = userData[c] /\ r.provider_id = p}
      listed == {i \in 1..Len(providersList[c]) : providersList[c][i].id = p}
  IN /\ (listed = {}) <=> (rows = {})
     /\ \A i \in listed, r \in rows :
          LET permissions == providersList[c][i].permissions IN
          /\ r.lab_results = Shown(permissions, "labResults")
          /\ r.medications = Shown(permissions, "medications")
          /\ r.fitness_data = Shown(permissions, "fitnessData")
\* a Providers handler of client c has just changed the list entry of
\* provider p and sent its request
C16_Mutated(c, p) ==
  /\ userData[c] # Anon
  /\ result.op \in {"insert", "upsert", "delete"}
  /\ "provider_id" \in DOMAIN result.req
  /\ result.req.provider_id = p
\* C16: after an optimistic change of a provider's list entry (add, update
\* permissions, delete), whether its request succeeded or failed, the list
\* and the table eventually agree about that provider again.
C16_EventuallyReconciled ==
  \A c \in Clients, p \in GeneratedIds :
    C16_Mutated(c, p) ~> C16_Agree(c, p)

(* ------------------- approval is never taken back ---------------------- *)
\* a row that is approved and is still in the table after the step is still
\* approved
C17_ApprovalKept ==
  \A r \in table, r2 \in table' :
    (r2.id = r.id /\ r.approved) => r2.approved
\* every row an update or an upsert wrote is approved
C17_WritesApprove ==
  (result'.op \in {"update", "upsert"} /\ result'.error = NoError) =>
    \A r2 \in table' \ table : r2.approved
\* a pending row written by the step is a new row, for a pair that had none
C17_PendingOnlyNew ==
  \A r2 \in table' \ table :
    ~r2.approved => \A r \in table : r.id # r2.id /\ ~SamePair(r, r2)
\* C17: no step of the pages turns approved from true to false: updates and
\* upserts write approved = true, a row written with approved = false is a
\* newly inserted row for a pair that had none, and so a row, once approved,
\* stays approved for as long as it is in the table.
C17_OnceApprovedStaysApproved ==
  [][C17_ApprovalKept /\ C17_WritesApprove /\ C17_PendingOnlyNew]_vars
\* the Approve button has approved a row that the mirror still lists as
\* pending, so that its Approve and Deny buttons are still offered
C17_Witness ==
  \E c \in Clients :
    /\ result.op = "update" /\ result.error = NoError
    /\ \E r \in table : r.id = result.req.id /\ r.approved
    /\ \E i \in Pending(c) : userConsents[c][i].id = result.req.id

====
